---- MODULE Spec2Model ----
(***************************************************************************)
(* A model of the brochure pipeline of Sales-Brochure-Generator_v2:        *)
(*   scraper.py             fetch_website_contents, fetch_website_links,   *)
(*                          extract_logo_and_color                         *)
(*   brochure_generator.py  llm_chat / llm_stream, select_relevant_links,  *)
(*                          fetch_page_and_all_relevant_links,             *)
(*                          get_brochure_user_prompt, create_brochure_text,*)
(*                          stream_brochure_text, save_as_*,               *)
(*                          generate_brochure                              *)
(*   app.py                 the "Generate Brochure" button handler         *)
(*                                                                         *)
(* Every external call (HTTP fetch, LLM call, renderer) is one step whose  *)
(* outcome (value or exception) is chosen by the environment.              *)
(*                                                                         *)
(* Optional values: None is <<>>, a present value x is <<x>>.              *)
(* Short texts (company names, LLM output) are sequences of characters.    *)
(* Scraped texts are sequences of segments <<source, n>>, "the first n     *)
(* characters of source": exact for strings that are only ever built by    *)
(* concatenation and prefix slicing, which is all the aggregator does.     *)
(***************************************************************************)
EXTENDS Integers, Sequences, FiniteSets, TLC

\* ------------------------------------------------------------------ bounds
MaxLinks == 2
MaxDeltas == 4
MaxAppDeltas == 1
MaxNameLen == 3
MaxCtxLinks == 2

\* ------------------------------------------------------- program constants
ContentCap == 2000
PromptCap == 5000

None == <<>>
Some(x) == <<x>>


\* ------------------------------------------------------------ value spaces
\* brochure_generator.py:35-44
GROQ_MODEL == <<"openai/gpt-oss-120b", "groq">>
FALLBACK_MODEL == <<"tngtech/deepseek-r1t2-chimera:free", "openrouter">>
FREE_MODELS == {FALLBACK_MODEL, GROQ_MODEL}

AllFormats == {"pdf", "docx", "html"}

\* URLs: scheme "" is a relative reference (an href such as "/about").
Url(scheme, loc) == [scheme |-> scheme, loc |-> loc]
NoUrl == Url("", "")
SiteUrl == Url("https", "acme.test")
IsAbsolute(u) == u.scheme # ""
\* What the link selector's JSON may hold: hrefs of the page echoed verbatim
\* (the prompt says "some might be relative links") or written out in full.
LinkUrls == {Url("", "/about"), Url("https", "acme.test/about"),
             Url("https", "acme.test/careers")}
LogoUrl == Url("https", "acme.test/logo.png")

RECURSIVE SeqsUpTo(_, _)
SeqsUpTo(S, n) ==
  IF n = 0 THEN {<<>>}
  ELSE LET shorter == SeqsUpTo(S, n - 1)
       IN  shorter \cup {Append(s, x) : s \in shorter, x \in S}

NameChars == {"A", "b", " ", "."}
Letters == {"A", "b"}
\* company names: free text of up to n characters that starts with a letter
CompanyNames(n) ==
  {name \in SeqsUpTo(NameChars, n) : name # <<>> /\ name[1] \in Letters}
GenTexts == {<<>>, <<"h", "i">>}
DeltaVals == {None, Some(<<>>), Some(<<"a">>), Some(<<"b", "c">>)}

\* --------------------------------------------------------------- variables
VARIABLES
  mode,             \* "generate": generate_brochure is called; "app": the button
                    \* handler of app.py runs; "harness": stream and one-shot
                    \* generation against one mocked backend
  company_name, model_pack, formats, precomputed_text,   \* the inputs
  pc,               \* position in the pipeline
  attempts,         \* create_brochure_text invocations of generate_brochure:
                    \* <<[pack, outcome]>>
  links,            \* relevant_links["links"] still to fetch
  pages,            \* URLs whose contents the context holds so far
  text,             \* generate_brochure's text (Optional)
  deltas, pos, full_text, yields,   \* stream_brochure_text
  final_text,       \* app.py's final_text
  oneShot,          \* harness: what create_brochure_text returned (Optional)
  brand,            \* (logo_url, brand_color) (Optional)
  file_paths,       \* generate_brochure's file_paths: set of [fmt, path]
  disk,             \* paths written under output_dir
  returned,         \* what generate_brochure returned (Optional)
  error,            \* the exception that reached the outermost caller (Optional)
  log,              \* every external call made, in order
  page,             \* the page the last fetch_website_contents got
  contents,         \* what the last fetch_website_contents returned
  result,           \* fetch_page_and_all_relevant_links' result so far
  user_prompt       \* what get_brochure_user_prompt returned (Optional)

inputVars == <<mode, company_name, model_pack, formats>>
streamVars == <<deltas, pos, full_text, yields, final_text>>
exportVars == <<brand, file_paths, disk, returned>>
textVars == <<page, contents, result, user_prompt>>
vars == <<mode, company_name, model_pack, formats, precomputed_text, pc, attempts,
          links, pages, text, deltas, pos, full_text, yields, final_text, oneShot,
          brand, file_paths, disk, returned, error, log, page, contents, result,
          user_prompt>>

\* ------------------------------------------------------------ LLM gateway
\* llm_chat: groq gets a temperature and never a response_format; openrouter
\* gets the response_format passed ("unset" stands for Python's None).
llm_chat(model_id, provider, messages, response_format) ==
  IF provider = "groq"
    THEN [client |-> "groq", model |-> model_id, messages |-> messages,
          temperature |-> "0.3", response_format |-> "unset", stream |-> FALSE]
    ELSE [client |-> "openrouter", model |-> model_id, messages |-> messages,
          temperature |-> "unset", response_format |-> response_format,
          stream |-> FALSE]

llm_stream(model_id, provider, messages) ==
  IF provider = "groq"
    THEN [client |-> "groq", model |-> model_id, messages |-> messages,
          temperature |-> "0.3", response_format |-> "unset", stream |-> TRUE]
    ELSE [client |-> "openrouter", model |-> model_id, messages |-> messages,
          temperature |-> "unset", response_format |-> "unset", stream |-> TRUE]

\* get_brochure_user_prompt, by what it is made of: the company name and the
\* pages whose contents were appended, in order (ContextSpec models its text).
UserPrompt(name, ps) == [company |-> name, pages |-> ps]

\* select_relevant_links' request
LinkRequest(url, pack) ==
  llm_chat(pack[1], pack[2],
           <<[role |-> "system", content |-> "link_system_prompt"],
             [role |-> "user", content |-> url.loc]>>,
           IF pack[2] # "groq" THEN "json_object" ELSE "unset")

BrochureMessages(prompt) ==
  <<[role |-> "system", content |-> "brochure_system_prompt"],
    [role |-> "user", content |-> prompt]>>

\* ------------------------------------------------------------ the call log
NoRequest == [client |-> "", model |-> "", messages |-> <<>>, temperature |-> "",
              response_format |-> "", stream |-> FALSE]
Event(op, url, purpose, req, ok) ==
  [op |-> op, url |-> url, purpose |-> purpose, req |-> req, ok |-> ok]
FetchEvent(op, url, ok) == Event(op, url, "", NoRequest, ok)
LlmEvent(op, purpose, req, ok) == Event(op, NoUrl, purpose, req, ok)
RenderEvent(fmt, ok) == Event("render", NoUrl, fmt, NoRequest, ok)

FetchOps == {"fetch_website_contents", "fetch_website_links"}
LlmOps == {"llm_chat", "llm_stream"}

\* ------------------------------------------------------------------ paths
\* A path is the sequence of its components, each a sequence of characters.
OutputDir == <<<<"o", "u", "t", "p", "u", "t">>>>

\* str.lower() and str.replace(" ", "_") on the model's alphabet
LowerChar(c) == IF c = "A" THEN "a" ELSE c
Normalize(name) ==
  [i \in 1..Len(name) |->
     IF LowerChar(name[i]) = " " THEN "_" ELSE LowerChar(name[i])]

\* PurePath.__truediv__ for a component without "/": "" and "." add nothing
PathJoin(dir, name) ==
  IF name = <<>> \/ name = <<".">> THEN dir ELSE Append(dir, name)

\* str.rfind(".") (0-based; -1 when absent)
RECURSIVE RFindDot(_, _)
RFindDot(name, i) ==
  IF i = 0 THEN -1
  ELSE IF name[i] = "." THEN i - 1 ELSE RFindDot(name, i - 1)

\* PurePath.suffix
Suffix(name) ==
  LET i == RFindDot(name, Len(name))
  IN  IF 0 < i /\ i < Len(name) - 1 THEN SubSeq(name, i + 1, Len(name)) ELSE <<>>

\* PurePath.with_suffix: the old suffix, if any, is replaced
WithSuffix(path, suffix) ==
  LET name == path[Len(path)]
      old  == Suffix(name)
      new  == IF old = <<>> THEN name \o suffix
              ELSE SubSeq(name, 1, Len(name) - Len(old)) \o suffix
  IN  [path EXCEPT ![Len(path)] = new]

Ext(fmt) ==
  CASE fmt = "pdf"  -> <<".", "p", "d", "f">>
    [] fmt = "docx" -> <<".", "d", "o", "c", "x">>
    [] fmt = "html" -> <<".", "h", "t", "m", "l">>

\* generate_brochure: base = output_dir / company_name.lower().replace(" ", "_")
Base(name) == PathJoin(OutputDir, Normalize(name))
ExportPath(name, fmt) == WithSuffix(Base(name), Ext(fmt))

\* ------------------------------------------------------------ scraped text
\* A text is a sequence of segments <<source, n>>, n > 0: the first n characters
\* of the string `source`. Sources are <<name, k>>: a literal of the code
\* (k = 0) or a part of the k-th page fetched.
Lit(src, n) == IF n = 0 THEN <<>> ELSE <<<<src, n>>>>

RECURSIVE StrLen(_)
StrLen(s) == IF s = <<>> THEN 0 ELSE Head(s)[2] + StrLen(Tail(s))

\* s[:k]
RECURSIVE Take(_, _)
Take(s, k) ==
  IF s = <<>> \/ k <= 0 THEN <<>>
  ELSE IF Head(s)[2] >= k THEN <<<<Head(s)[1], k>>>>
  ELSE <<Head(s)>> \o Take(Tail(s), k - Head(s)[2])

IsPrefix(a, b) == a = Take(b, StrLen(a))

\* lengths of the string literals of the code
PlaceholderLen == 14
SeparatorLen == 2
LandingHeaderLen == 18
LinksHeaderLen == 20
LinkHeaderLen == 12
NewlineLen == 1
PreambleHeadLen == 38
PreambleTailLen == 166

Placeholder == Lit(<<"No title found", 0>>, PlaceholderLen)

\* A fetched document: its <title> has text (tlen characters), is there but
\* empty, or is absent; its <body> is there (blen characters of text) or not.
Pages ==
  [title : {"absent", "empty"}, tlen : {0}, body : {FALSE}, blen : {0}]
    \cup [title : {"absent", "empty"}, tlen : {0}, body : {TRUE}, blen : {0, 1990, 4000}]
    \cup [title : {"text"}, tlen : {5, 2100}, body : {FALSE}, blen : {0}]
    \cup [title : {"text"}, tlen : {5, 2100}, body : {TRUE}, blen : {0, 1990, 4000}]
NoPage == [title |-> "absent", tlen |-> 0, body |-> FALSE, blen |-> 0]

\* "title = soup.title.string if soup.title else ...": a Tag is truthy even when
\* empty, and the .string of an empty <title> is None
TitleString(p, k) ==
  CASE p.title = "absent" -> Some(Placeholder)
    [] p.title = "text"   -> Some(Lit(<<"title", k>>, p.tlen))
    [] p.title = "empty"  -> None

\* title + "\n\n" + text raises TypeError when title is None
FetchRaises(p, k) == TitleString(p, k) = None

BodyText(p, k) == IF p.body THEN Lit(<<"body", k>>, p.blen) ELSE <<>>

\* fetch_website_contents: (title + "\n\n" + text)[:2_000]
fetch_website_contents(p, k) ==
  Take(TitleString(p, k)[1] \o Lit(<<"\n\n", 0>>, SeparatorLen) \o BodyText(p, k),
       ContentCap)

\* fetch_page_and_all_relevant_links: result = f"## Landing Page:..."
LandingSection(c) ==
  Lit(<<"## Landing Page:\n\n", 0>>, LandingHeaderLen) \o c
    \o Lit(<<"\n## Relevant Links:\n", 0>>, LinksHeaderLen)

\* the loop body's two += ; link = [type: length of its label, id: its place in
\* the selector's answer]
LinkSection(link, c) ==
  Lit(<<"\n\n### Link: ", 0>>, LinkHeaderLen) \o Lit(<<"type", link.id>>, link.type)
    \o Lit(<<"\n", 0>>, NewlineLen) \o c

\* get_brochure_user_prompt: the f-string before the += 
Preamble(name) ==
  Lit(<<"\nYou are looking at a company called: ", 0>>, PreambleHeadLen)
    \o Lit(<<"company_name", 0>>, Len(name))
    \o Lit(<<"\nHere are the contents ...\n\n\n", 0>>, PreambleTailLen)

\* the cut one character late
Truncate_OffByOne(s) == Take(s, PromptCap + 1)

\* user_prompt[:5_000]
Truncate(s) == Take(s, PromptCap)

TypeLens == {4, 12}
\* the selector's answers: up to n links, each with a label
LinkLists(n) ==
  {[i \in 1..Len(ts) |-> [type |-> ts[i], id |-> i]] : ts \in SeqsUpTo(TypeLens, n)}

\* --------------------------------------------------------------- pipeline
\* the test written as "if precomputed_text:" (an empty text counts as none)
HasPrecomputed_Truthy(p) == p # None /\ p[1] # <<>>

\* generate_brochure: "if precomputed_text is not None"
HasPrecomputed(p) == p # None

\* the except body retrying with the caller's pack
RetryPack_Same(p) == p

\* generate_brochure's except body: the pack of the second attempt
RetryPack(p) == FALLBACK_MODEL

\* The pack the running create_brochure_text / stream_brochure_text was given
CurPack == IF attempts # <<>> THEN attempts[Len(attempts)].pack ELSE model_pack

Logged(e) == log' = Append(log, e)

\* An exception leaves create_brochure_text or stream_brochure_text. Inside
\* generate_brochure's try (first attempt) the except body runs and calls
\* create_brochure_text(company_name, url, FALLBACK_MODEL); anywhere else it
\* propagates to the outermost caller (for the app: st.error).
Raise(kind) ==
  /\ IF Len(attempts) = 1
       THEN /\ attempts' = <<[attempts[1] EXCEPT !.outcome = "raised"],
                             [pack |-> RetryPack(model_pack), outcome |-> "running"]>>
            /\ pc' = "ctx_landing"
            /\ error' = error
       ELSE /\ attempts' = IF attempts = <<>> THEN attempts
                           ELSE [attempts EXCEPT ![Len(attempts)].outcome = "raised"]
            /\ pc' = "error"
            /\ error' = Some(kind)
  /\ links' = <<>>
  /\ pages' = <<>>

\* app.py:30-47: the button handler up to the call of stream_brochure_text
AppClick ==
  /\ pc = "click"
  /\ IF company_name = <<>>
       THEN pc' = "rejected"
       ELSE pc' = "ctx_landing"
  /\ final_text' = <<>>
  /\ UNCHANGED <<inputVars, textVars, precomputed_text, attempts, links, pages, text, deltas,
                 pos, full_text, yields, oneShot, exportVars, error, log>>

\* generate_brochure up to the first external call
GenerateBrochure ==
  /\ pc = "gb_entry"
  /\ IF HasPrecomputed(precomputed_text)
       THEN /\ text' = precomputed_text
            /\ pc' = "brand"
            /\ attempts' = attempts
       ELSE /\ text' = text
            /\ pc' = "ctx_landing"
            /\ attempts' = <<[pack |-> model_pack, outcome |-> "running"]>>
  /\ UNCHANGED <<inputVars, textVars, precomputed_text, links, pages, streamVars, oneShot,
                 exportVars, error, log>>

\* fetch_page_and_all_relevant_links: contents = fetch_website_contents(url)
FetchLanding ==
  /\ pc = "ctx_landing"
  /\ \/ /\ Logged(FetchEvent("fetch_website_contents", SiteUrl, TRUE))
        /\ pages' = <<SiteUrl>>
        /\ pc' = "ctx_links"
        /\ UNCHANGED <<attempts, links, error>>
     \/ /\ Logged(FetchEvent("fetch_website_contents", SiteUrl, FALSE))
        /\ Raise("FetchError")
  /\ UNCHANGED <<inputVars, textVars, precomputed_text, text, streamVars, oneShot, exportVars>>

\* get_links_user_prompt: links = fetch_website_links(url)
FetchLinks ==
  /\ pc = "ctx_links"
  /\ \/ /\ Logged(FetchEvent("fetch_website_links", SiteUrl, TRUE))
        /\ pc' = "ctx_select"
        /\ UNCHANGED <<attempts, links, pages, error>>
     \/ /\ Logged(FetchEvent("fetch_website_links", SiteUrl, FALSE))
        /\ Raise("FetchError")
  /\ UNCHANGED <<inputVars, textVars, precomputed_text, text, streamVars, oneShot, exportVars>>

\* select_relevant_links: llm_chat, then json.loads of the answer; the answer
\* is used as it is
SelectLinks ==
  /\ pc = "ctx_select"
  /\ \/ /\ Logged(LlmEvent("llm_chat", "links", LinkRequest(SiteUrl, CurPack), FALSE))
        /\ Raise("LLMError")
     \/ /\ Logged(LlmEvent("llm_chat", "links", LinkRequest(SiteUrl, CurPack), TRUE))
        /\ Raise("JSONDecodeError")
     \/ /\ Logged(LlmEvent("llm_chat", "links", LinkRequest(SiteUrl, CurPack), TRUE))
        /\ \E ls \in SeqsUpTo(LinkUrls, MaxLinks) : links' = ls
        /\ pc' = "ctx_pages"
        /\ UNCHANGED <<attempts, pages, error>>
  /\ UNCHANGED <<inputVars, textVars, precomputed_text, text, streamVars, oneShot, exportVars>>

\* the loop body: result += fetch_website_contents(link["url"]); requests
\* refuses a URL without a scheme (MissingSchema)
FetchLinkedPage ==
  /\ pc = "ctx_pages"
  /\ links # <<>>
  /\ LET u == Head(links)
     IN  \/ /\ IsAbsolute(u)
            /\ Logged(FetchEvent("fetch_website_contents", u, TRUE))
            /\ pages' = Append(pages, u)
            /\ links' = Tail(links)
            /\ UNCHANGED <<pc, attempts, error>>
         \/ /\ IsAbsolute(u)
            /\ Logged(FetchEvent("fetch_website_contents", u, FALSE))
            /\ Raise("FetchError")
         \/ /\ ~IsAbsolute(u)
            /\ Logged(FetchEvent("fetch_website_contents", u, FALSE))
            /\ Raise("MissingSchema")
  /\ UNCHANGED <<inputVars, textVars, precomputed_text, text, streamVars, oneShot, exportVars>>

\* create_brochure_text: the prompt is complete, llm_chat is called
CreateBrochureText ==
  /\ pc = "ctx_pages"
  /\ links = <<>>
  /\ mode = "generate"
  /\ LET req == llm_chat(CurPack[1], CurPack[2],
                         BrochureMessages(UserPrompt(company_name, pages)), "unset")
     IN  \/ /\ Logged(LlmEvent("llm_chat", "brochure", req, FALSE))
            /\ Raise("LLMError")
            /\ text' = text
         \/ /\ Logged(LlmEvent("llm_chat", "brochure", req, TRUE))
            /\ \E t \in GenTexts : text' = Some(t)
            /\ attempts' = [attempts EXCEPT ![Len(attempts)].outcome = "ok"]
            /\ pc' = "brand"
            /\ UNCHANGED <<links, pages, error>>
  /\ UNCHANGED <<inputVars, textVars, precomputed_text, streamVars, oneShot, exportVars>>

\* -------------------------------------------------------------- streaming
\* stream_brochure_text: part = delta.content or ""
Part(delta) == IF delta = None THEN <<>> ELSE delta[1]

\* the mocked backend's one-shot completion: the deltas it streams, joined
RECURSIVE Joined(_)
Joined(ds) == IF ds = <<>> THEN <<>> ELSE Part(Head(ds)) \o Joined(Tail(ds))

\* every chunk is yielded, empty or not
Yields_Always(part) == TRUE

\* stream_brochure_text: "if part:" decides whether the chunk extends the text
\* and is yielded
Yields(part) == part # <<>>

StreamRequest ==
  llm_stream(CurPack[1], CurPack[2], BrochureMessages(UserPrompt(company_name, pages)))

\* stream_brochure_text: the prompt is complete, llm_stream is called
StreamOpen ==
  /\ pc = "ctx_pages"
  /\ links = <<>>
  /\ mode = "app"
  /\ \/ /\ Logged(LlmEvent("llm_stream", "brochure", StreamRequest, FALSE))
        /\ Raise("LLMError")
        /\ UNCHANGED <<deltas, pos, full_text>>
     \/ /\ Logged(LlmEvent("llm_stream", "brochure", StreamRequest, TRUE))
        /\ \E ds \in SeqsUpTo(DeltaVals, MaxAppDeltas) : deltas' = ds
        /\ pos' = 0
        /\ full_text' = <<>>
        /\ pc' = "streaming"
        /\ UNCHANGED <<attempts, links, pages, error>>
  /\ UNCHANGED <<inputVars, textVars, precomputed_text, text, yields, final_text, oneShot,
                 exportVars>>

\* the loop body with "full_text = part" for "full_text += part"
StreamChunk_Overwrite ==
  /\ pc = "streaming"
  /\ pos < Len(deltas)
  /\ pos' = pos + 1
  /\ LET part == Part(deltas[pos + 1])
     IN  IF Yields(part)
           THEN /\ full_text' = part
                /\ yields' = Append(yields, [at |-> pos + 1, text |-> full_text'])
                /\ final_text' = full_text'
           ELSE UNCHANGED <<full_text, yields, final_text>>
  /\ UNCHANGED <<inputVars, textVars, precomputed_text, pc, attempts, links, pages, text,
                 deltas, oneShot, exportVars, error, log>>

\* one turn of "for chunk in stream", and of the consumer's loop body
\* (app.py:47-49) when the chunk is yielded
StreamChunk ==
  /\ pc = "streaming"
  /\ pos < Len(deltas)
  /\ pos' = pos + 1
  /\ LET part == Part(deltas[pos + 1])
     IN  IF Yields(part)
           THEN /\ full_text' = full_text \o part
                /\ yields' = Append(yields, [at |-> pos + 1, text |-> full_text'])
                /\ final_text' = full_text'
           ELSE UNCHANGED <<full_text, yields, final_text>>
  /\ UNCHANGED <<inputVars, textVars, precomputed_text, pc, attempts, links, pages, text, deltas,
                 oneShot, exportVars, error, log>>

\* the backend fails while the stream is read
StreamRaise ==
  /\ pc = "streaming"
  /\ pos < Len(deltas)
  /\ Raise("LLMError")
  /\ UNCHANGED <<inputVars, textVars, precomputed_text, text, streamVars, oneShot, exportVars,
                 log>>

\* app.py:51-61: the stream is exhausted; generate_brochure is called with
\* precomputed_text=final_text
AppStreamEnd ==
  /\ pc = "streaming"
  /\ pos = Len(deltas)
  /\ mode = "app"
  /\ precomputed_text' = Some(final_text)
  /\ pc' = "gb_entry"
  /\ UNCHANGED <<inputVars, textVars, attempts, links, pages, text, streamVars, oneShot,
                 exportVars, error, log>>

\* ----------------------------------------------------------------- export
\* extract_logo_and_color never raises: any failure gives (None, "#000000")
Brand ==
  /\ pc = "brand"
  /\ \/ /\ Logged(FetchEvent("extract_logo_and_color", SiteUrl, FALSE))
        /\ brand' = Some(<<None, "#000000">>)
     \/ /\ Logged(FetchEvent("extract_logo_and_color", SiteUrl, TRUE))
        /\ \E b \in {<<None, "#000000">>, <<Some(LogoUrl), "#1A2B3C">>} :
             brand' = Some(b)
  /\ pc' = "pdf"
  /\ UNCHANGED <<inputVars, textVars, precomputed_text, attempts, links, pages, text, streamVars,
                 oneShot, file_paths, disk, returned, error>>

\* "if fmt in formats: file_paths[fmt] = save_as_<fmt>(text, base.with_suffix(ext), ...)"
\* A renderer that throws is not caught anywhere in generate_brochure.
Save(fmt, next) ==
  /\ pc = fmt
  /\ IF fmt \notin formats
       THEN /\ pc' = next
            /\ UNCHANGED <<file_paths, disk, error, log>>
       ELSE \/ /\ Logged(RenderEvent(fmt, TRUE))
               /\ disk' = disk \cup {ExportPath(company_name, fmt)}
               /\ file_paths' = {e \in file_paths : e.fmt # fmt}
                                  \cup {[fmt |-> fmt, path |-> ExportPath(company_name, fmt)]}
               /\ pc' = next
               /\ error' = error
            \/ /\ Logged(RenderEvent(fmt, FALSE))
               /\ pc' = "error"
               /\ error' = Some("ExportError")
               /\ UNCHANGED <<file_paths, disk>>
  /\ UNCHANGED <<inputVars, textVars, precomputed_text, attempts, links, pages, text, streamVars,
                 oneShot, brand, returned>>

SavePdf == Save("pdf", "docx")
SaveDocx == Save("docx", "html")
SaveHtml == Save("html", "return")

\* "return text, file_paths"
Return ==
  /\ pc = "return"
  /\ returned' = Some([text |-> text[1], file_paths |-> file_paths])
  /\ pc' = "done"
  /\ UNCHANGED <<inputVars, textVars, precomputed_text, attempts, links, pages, text, streamVars,
                 oneShot, brand, file_paths, disk, error, log>>

\* ---------------------------------------------------------- specification
PreTexts == {<<>>, <<"h", "i">>}

InitCommon ==
  /\ model_pack \in FREE_MODELS
  /\ formats \in SUBSET AllFormats
  /\ attempts = <<>>
  /\ links = <<>>
  /\ pages = <<>>
  /\ text = None
  /\ deltas = <<>>
  /\ pos = 0
  /\ full_text = <<>>
  /\ yields = <<>>
  /\ final_text = <<>>
  /\ oneShot = None
  /\ brand = None
  /\ file_paths = {}
  /\ disk = {}
  /\ returned = None
  /\ error = None
  /\ log = <<>>
  /\ page = NoPage
  /\ contents = <<>>
  /\ result = <<>>
  /\ user_prompt = None

\* A user action: generate_brochure called by a program (with or without
\* precomputed_text), or the button of app.py pressed.
Init ==
  /\ InitCommon
  /\ company_name \in {<<>>, <<"A">>, <<"A", " ", "b">>}
  /\ \/ /\ mode = "generate"
        /\ precomputed_text \in {None} \cup {Some(t) : t \in PreTexts}
        /\ pc = "gb_entry"
     \/ /\ mode = "app"
        /\ precomputed_text = None
        /\ pc = "click"

Next ==
  \/ AppClick
  \/ GenerateBrochure
  \/ FetchLanding
  \/ FetchLinks
  \/ SelectLinks
  \/ FetchLinkedPage
  \/ CreateBrochureText
  \/ StreamOpen
  \/ StreamChunk
  \/ StreamRaise
  \/ AppStreamEnd
  \/ Brand
  \/ SavePdf
  \/ SaveDocx
  \/ SaveHtml
  \/ Return

Spec == Init /\ [][Next]_vars

\* generate_brochure called with a text generated earlier: the export stage,
\* for every company name of up to MaxNameLen characters
InitExport ==
  /\ InitCommon
  /\ company_name \in CompanyNames(MaxNameLen)
  /\ mode = "generate"
  /\ precomputed_text \in {Some(t) : t \in PreTexts}
  /\ pc = "gb_entry"

NextExport ==
  \/ GenerateBrochure
  \/ Brand
  \/ SavePdf
  \/ SaveDocx
  \/ SaveHtml
  \/ Return

ExportSpec == InitExport /\ [][NextExport]_vars

\* stream_brochure_text and create_brochure_text driven, one after the other,
\* against one mocked backend that streams `deltas` and completes with their
\* concatenation; the context (the mocked pages) is the same for both
HarnessStreamOpen ==
  /\ pc = "harness_stream"
  /\ Logged(LlmEvent("llm_stream", "brochure", StreamRequest, TRUE))
  /\ pos' = 0
  /\ full_text' = <<>>
  /\ pc' = "streaming"
  /\ UNCHANGED <<inputVars, textVars, precomputed_text, attempts, links, pages, text, deltas,
                 yields, final_text, oneShot, exportVars, error>>

HarnessStreamEnd ==
  /\ pc = "streaming"
  /\ pos = Len(deltas)
  /\ pc' = "harness_oneshot"
  /\ UNCHANGED <<inputVars, textVars, precomputed_text, attempts, links, pages, text, streamVars,
                 oneShot, exportVars, error, log>>

\* create_brochure_text: return response.choices[0].message.content
HarnessOneShot ==
  /\ pc = "harness_oneshot"
  /\ Logged(LlmEvent("llm_chat", "brochure",
                     llm_chat(CurPack[1], CurPack[2],
                              BrochureMessages(UserPrompt(company_name, pages)), "unset"),
                     TRUE))
  /\ oneShot' = Some(Joined(deltas))
  /\ pc' = "done"
  /\ UNCHANGED <<inputVars, textVars, precomputed_text, attempts, links, pages, text, streamVars,
                 exportVars, error>>

InitStream ==
  /\ model_pack \in FREE_MODELS
  /\ formats = AllFormats
  /\ company_name \in {<<"A">>, <<"b", " ">>}
  /\ mode = "harness"
  /\ precomputed_text = None
  /\ pc = "harness_stream"
  /\ attempts = <<>>
  /\ links = <<>>
  /\ pages \in {<<SiteUrl>> \o ls : ls \in SeqsUpTo({Url("https", "acme.test/about")}, 1)}
  /\ text = None
  /\ deltas \in SeqsUpTo(DeltaVals, MaxDeltas)
  /\ pos = 0
  /\ full_text = <<>>
  /\ yields = <<>>
  /\ final_text = <<>>
  /\ oneShot = None
  /\ brand = None
  /\ file_paths = {}
  /\ disk = {}
  /\ returned = None
  /\ error = None
  /\ log = <<>>
  /\ page = NoPage
  /\ contents = <<>>
  /\ result = <<>>
  /\ user_prompt = None

NextStream ==
  \/ HarnessStreamOpen
  \/ StreamChunk
  \/ HarnessStreamEnd
  \/ HarnessOneShot

StreamSpec == InitStream /\ [][NextStream]_vars

\* get_brochure_user_prompt with the text of every page: what
\* fetch_website_contents makes of each document and what the prompt is made of
CtxFetchLanding ==
  /\ pc = "c_landing"
  /\ \E p \in Pages :
       /\ page' = p
       /\ IF FetchRaises(p, 0)
            THEN /\ pc' = "error"
                 /\ error' = Some("TypeError")
                 /\ contents' = contents
            ELSE /\ pc' = "c_select"
                 /\ error' = error
                 /\ contents' = fetch_website_contents(p, 0)
  /\ pos' = 0
  /\ UNCHANGED <<inputVars, precomputed_text, attempts, links, pages, text, deltas,
                 full_text, yields, final_text, oneShot, exportVars, log, result,
                 user_prompt>>

CtxSelectLinks ==
  /\ pc = "c_select"
  /\ \E ls \in LinkLists(MaxCtxLinks) : links' = ls
  /\ result' = LandingSection(contents)
  /\ pc' = "c_pages"
  /\ UNCHANGED <<inputVars, precomputed_text, attempts, pages, text, streamVars, oneShot,
                 exportVars, error, log, page, contents, user_prompt>>

CtxFetchLinkedPage ==
  /\ pc = "c_pages"
  /\ pos < Len(links)
  /\ \E p \in Pages :
       /\ page' = p
       /\ IF FetchRaises(p, pos + 1)
            THEN /\ pc' = "error"
                 /\ error' = Some("TypeError")
                 /\ UNCHANGED <<contents, result, pos>>
            ELSE /\ contents' = fetch_website_contents(p, pos + 1)
                 /\ result' = result \o LinkSection(links[pos + 1], contents')
                 /\ pos' = pos + 1
                 /\ UNCHANGED <<pc, error>>
  /\ UNCHANGED <<inputVars, precomputed_text, attempts, links, pages, text, deltas,
                 full_text, yields, final_text, oneShot, exportVars, log, user_prompt>>

CtxBuildPrompt ==
  /\ pc = "c_pages"
  /\ pos = Len(links)
  /\ user_prompt' = Some(Truncate(Preamble(company_name) \o result))
  /\ pc' = "c_done"
  /\ UNCHANGED <<inputVars, precomputed_text, attempts, links, pages, text, streamVars,
                 oneShot, exportVars, error, log, page, contents, result>>

InitContext ==
  /\ InitCommon
  /\ model_pack = FALLBACK_MODEL
  /\ formats = AllFormats
  /\ company_name \in {<<"A">>, <<"A", " ", "b">>}
  /\ mode = "generate"
  /\ precomputed_text = None
  /\ pc = "c_landing"

NextContext ==
  \/ CtxFetchLanding
  \/ CtxSelectLinks
  \/ CtxFetchLinkedPage
  \/ CtxBuildPrompt

ContextSpec == InitContext /\ [][NextContext]_vars

\* ============================================================= properties
Calls(ops, purpose) ==
  SelectSeq(log, LAMBDA e : e.op \in ops /\ e.purpose = purpose)
FailedFetches == {i \in 1..Len(log) : log[i].op \in FetchOps /\ ~log[i].ok}
Terminal == pc \in {"done", "error", "rejected"}

\* C1: generate_brochure without precomputed_text makes one or two generation
\* attempts, never more: the first with the caller's pack; a second only after
\* the first raised, and then always, with FALLBACK_MODEL; when the second
\* raises too the error reaches the caller and nothing is exported; after a
\* first attempt that succeeded there is no second.
C1_FallbackOnce ==
  (mode = "generate" /\ precomputed_text = None /\ pc # "gb_entry") =>
    /\ Len(attempts) \in {1, 2}
    /\ attempts[1].pack = model_pack
    /\ Len(attempts) = 2 <=> attempts[1].outcome = "raised"
    /\ Len(attempts) = 2 => attempts[2].pack = FALLBACK_MODEL
    /\ attempts[1].outcome = "ok" => Len(attempts) = 1
    /\ (Len(attempts) = 2 /\ attempts[2].outcome = "raised") =>
         /\ pc = "error"
         /\ error # None
         /\ returned = None
         /\ disk = {}
    /\ pc \in {"brand", "pdf", "docx", "html", "return", "done"} =>
         attempts[Len(attempts)].outcome = "ok"
    /\ LET gen == Calls({"llm_chat"}, "brochure")
       IN  /\ Len(gen) <= Len(attempts)
           /\ \A i \in 1..Len(gen) :
                \E a \in 1..Len(attempts) : gen[i].req.model = attempts[a].pack[1]
           /\ Len(gen) = 2 => (~gen[1].ok /\ gen[2].req.model = FALLBACK_MODEL[1])

\* the primary attempt (another pack than the fallback) raised, the fallback
\* attempt produced the text and the brochure was exported
C1_Witness ==
  /\ mode = "generate"
  /\ precomputed_text = None
  /\ model_pack # FALLBACK_MODEL
  /\ Len(attempts) = 2
  /\ attempts[2].outcome = "ok"
  /\ Len(Calls({"llm_chat"}, "brochure")) = 2
  /\ pc = "done"

\* C2: with a precomputed_text, the empty text included, generate_brochure
\* calls neither the LLM gateway nor the content or link fetchers and returns
\* the text as given; in the app's flow the brochure text is generated by at
\* most one LLM call, the stream's, and nothing is generated or fetched for
\* generation after it.
C2_PrecomputedSkipsGeneration ==
  /\ (mode = "generate" /\ precomputed_text # None) =>
       /\ \A i \in 1..Len(log) : log[i].op \notin LlmOps \cup FetchOps
       /\ attempts = <<>>
       /\ text # None => text = precomputed_text
       /\ returned # None => returned[1].text = precomputed_text[1]
  /\ mode = "app" =>
       /\ Len(Calls(LlmOps, "brochure")) <= 1
       /\ Len(Calls({"llm_chat"}, "brochure")) = 0
       /\ attempts = <<>>
       /\ \A i \in 1..Len(log) :
            log[i].op = "llm_stream" =>
              \A j \in (i + 1)..Len(log) : log[j].op \notin LlmOps \cup FetchOps
       /\ precomputed_text # None => precomputed_text = Some(final_text)
       /\ returned # None => returned[1].text = final_text

\* the stream yielded nothing, generate_brochure got the empty text and returned
C2_Witness ==
  /\ mode = "app"
  /\ pc = "done"
  /\ final_text = <<>>
  /\ precomputed_text = Some(<<>>)
  /\ returned # None
  /\ returned[1].text = <<>>
  /\ Len(Calls({"llm_stream"}, "brochure")) = 1

\* C3: the ExportResult generate_brochure returns has exactly the requested
\* formats as keys, and each maps to
\* <output_dir>/<company name lowercased, spaces to underscores>.<ext>.
C3_ExactKeysAndPaths ==
  returned # None =>
    LET fp == returned[1].file_paths
    IN  /\ {e.fmt : e \in fp} = formats
        /\ Cardinality(fp) = Cardinality(formats)
        /\ \A e \in fp :
             e.path = Append(OutputDir, Normalize(company_name) \o Ext(e.fmt))

FailedRenders == {log[i].purpose : i \in {j \in 1..Len(log) :
                                            log[j].op = "render" /\ ~log[j].ok}}

\* C4: when the renderer of one requested format throws, the caller still gets
\* an ExportResult holding every other requested format.
C4_RendererIsolation ==
  (Terminal /\ FailedRenders # {} /\ formats \ FailedRenders # {}) =>
    /\ returned # None
    /\ {e.fmt : e \in returned[1].file_paths} = formats \ FailedRenders

\* C5: stream_brochure_text yields once per non-empty delta and never on an
\* empty or missing one; each yield is the concatenation of the deltas received
\* so far and strictly extends the yield before it; the last yield is the
\* concatenation of all deltas.
C5_StreamYields ==
  pc \in {"streaming", "harness_oneshot", "done"} =>
    /\ {yields[j].at : j \in 1..Len(yields)} = {i \in 1..pos : Part(deltas[i]) # <<>>}
    /\ \A j \in 1..Len(yields) :
         /\ yields[j].text = Joined(SubSeq(deltas, 1, yields[j].at))
         /\ j > 1 => /\ yields[j - 1].at < yields[j].at
                     /\ Len(yields[j - 1].text) < Len(yields[j].text)
                     /\ yields[j - 1].text
                          = SubSeq(yields[j].text, 1, Len(yields[j - 1].text))
    /\ (pos = Len(deltas) /\ yields # <<>>) => yields[Len(yields)].text = Joined(deltas)

\* a stream with a missing-content delta, an empty delta and two non-empty
\* ones has been read to its end
C5_Witness ==
  /\ pc = "done"
  /\ Len(yields) = 2
  /\ \E i \in 1..Len(deltas) : deltas[i] = None
  /\ \E i \in 1..Len(deltas) : deltas[i] = Some(<<>>)

\* C6: against a backend whose completion is the concatenation of the deltas
\* it streams, the last value stream_brochure_text yields is what
\* create_brochure_text returns, and both send the same messages.
C6_StreamEqualsOneShot ==
  pc = "done" =>
    /\ yields # <<>> => oneShot = Some(yields[Len(yields)].text)
    /\ yields = <<>> => oneShot = Some(<<>>)
    /\ oneShot = Some(final_text)
    /\ Len(log) = 2
    /\ log[1].op = "llm_stream" /\ log[2].op = "llm_chat"
    /\ log[1].req.messages = log[2].req.messages
    /\ log[1].req.model = log[2].req.model
    /\ log[1].req.messages[2].content = UserPrompt(company_name, pages)

\* both ran; the stream had an empty delta and ended after several yields
C6_Witness ==
  /\ pc = "done"
  /\ Len(yields) >= 2
  /\ Len(deltas) > Len(yields)
  /\ oneShot = Some(<<"a", "b", "c">>)

\* C7: a fetch failure during content aggregation aborts the run: the error
\* reaches the caller and no fetch, LLM call or export follows it.
C7_FetchFailureAborts ==
  \A i \in FailedFetches :
    /\ i = Len(log)
    /\ pc \in {"done", "error"} => (pc = "error" /\ error # None)
    /\ returned = None
    /\ disk = {}

\* C8: fetch_website_contents is never called with a relative URL.
C8_OnlyAbsoluteFetched ==
  \A i \in 1..Len(log) :
    log[i].op = "fetch_website_contents" => IsAbsolute(log[i].url)

\* C9: fetch_website_contents returns at most ContentCap characters, starting
\* with the placeholder when the page has no title, and never fails because
\* of the page's title (with text, empty or absent).
C9_FetchContents ==
  /\ error # Some("TypeError")
  /\ pc \in {"c_select", "c_pages", "c_done"} =>
       /\ StrLen(contents) <= ContentCap
       /\ page.title = "absent" => Take(contents, PlaceholderLen) = Placeholder

LinkIds(s) == [i \in 1..Len(SelectSeq(s, LAMBDA g : g[1][1] = "type")) |->
                 SelectSeq(s, LAMBDA g : g[1][1] = "type")[i][1][2]]

\* C10: the prompt get_brochure_user_prompt returns is at most PromptCap
\* characters long and is a prefix of preamble + landing section + one section
\* per relevant link in the selector's order.
C10_ContextCapped ==
  /\ pc \in {"c_pages", "c_done"} =>
       /\ Take(result, LandingHeaderLen) = Lit(<<"## Landing Page:\n\n", 0>>, LandingHeaderLen)
       /\ LinkIds(result) = [i \in 1..pos |-> links[i].id]
  /\ user_prompt # None =>
       /\ StrLen(user_prompt[1]) <= PromptCap
       /\ IsPrefix(user_prompt[1], Preamble(company_name) \o result)
       /\ StrLen(Preamble(company_name) \o result) <= PromptCap =>
            user_prompt[1] = Preamble(company_name) \o result

\* two linked pages made the context longer than the cap and it was cut
C10_Witness ==
  /\ user_prompt # None
  /\ Len(links) = 2
  /\ pos = 2
  /\ StrLen(Preamble(company_name) \o result) > PromptCap
  /\ StrLen(user_prompt[1]) = PromptCap

====
